---- MODULE Spec2Model ----
(***************************************************************************)
(* A model of the eventsource Server (src/server.go): the dispatcher       *)
(* goroutine Server.run, the streaming handlers returned by                *)
(* Server.Handler, the replay goroutines, and the callers of Publish,      *)
(* Register and Close.  Every channel of the Server is unbuffered, so a    *)
(* send and its matching receive are one step of the model.                *)
(***************************************************************************)
EXTENDS Integers, Sequences, FiniteSets, TLC

\* ------------------------------------------------------------- bounds
MaxCalls == 3       \* requests served by Handler plus calls of Publish and Register
MaxChans == 2       \* longest channel list given to Publish

Subs == 1..MaxCalls
Pubs == 1..MaxCalls
Regs == 1..MaxCalls

Channels == {"news", "sports"}
LastIds == {"", "5"}
Repos == {"A", "B"}

\* The channel lists a Publish call may carry (duplicates allowed).
RECURSIVE SeqsUpTo(_, _)
SeqsUpTo(S, n) ==
    IF n = 0 THEN {<<>>}
    ELSE LET shorter == SeqsUpTo(S, n - 1)
         IN  shorter \cup {Append(q, c) : q \in shorter, c \in S}

ChanLists == SeqsUpTo(Channels, MaxChans) \ {<<>>}

Range(q) == {q[i] : i \in 1..Len(q)}

\* The event a Publish call carries: call p publishes the event with id 8 + p.
PubEvent(p) == 8 + p
LiveEvents == {PubEvent(p) : p \in Pubs}

\* ----------------------------------------------- the history sources
\* What a Repository holds for a channel, oldest first.
History(repo, channel) ==
    IF repo = "A"
    THEN (IF channel = "news" THEN <<5, 6, 7, 8>> ELSE <<5, 16>>)
    ELSE (IF channel = "news" THEN <<5, 7>> ELSE <<>>)

\* The number a Last-Event-ID header stands for.
IdNum(lastEventId) == IF lastEventId = "5" THEN 5 ELSE 0

\* Repository.Replay: the events of the channel after lastEventId, in order.
Replay(repo, channel, lastEventId) ==
    LET after(e) == e > IdNum(lastEventId)
    IN  SelectSeq(History(repo, channel), after)

VARIABLES
    hpc,          \* hpc[s]: where the handler of subscription s stands
    subChannel,   \* sub.channel
    subLastId,    \* sub.lastEventId
    got,          \* got[s]: the ids of the events the handler received
                  \* from sub.out, in order
    closeCount,   \* closeCount[s]: how many times close(s.out) ran
    replayPc,     \* replayPc[s]: "none", "run" or "done"
    replayRest,   \* replayRest[s]: the events replay has still to send
    replayRepo,   \* replayRepo[s]: the repository the replay was started with
    replayN,      \* replayN[s]: how many replay goroutines were started for s
    runPc,        \* the dispatcher: "select", "pub" or "done"
    subs,         \* run's map channel -> set of subscriptions
    repos,        \* run's map channel -> Repository
    pubCall,      \* the Publish call whose message the pub case holds (0: none)
    pubChans,     \* pub.channels of that message
    pubIdx,       \* the place in pub.channels of the channel being sent to
    pubTodo,      \* subscriptions of that channel not yet sent to
    pubPc,        \* pubPc[p]: "idle", "send" (blocked in the send) or "ret"
    regPc,        \* regPc[r]: "idle", "send" (blocked in the send) or "ret"
    closePc,      \* the Close call: "idle", "send" or "ret"
    panicked,     \* "none", or the runtime panic that ended the process
    calls,        \* history: the requests and calls made so far
    late,         \* history: the calls that began after run had returned
    lastReg,      \* history: channel -> the repository of the Register call
                  \* the dispatcher received last for it
    pubSubs       \* history: run's subs as it stood when the message of the
                  \* pub case was received

vars == <<hpc, subChannel, subLastId, got, closeCount, replayPc, replayRest,
          replayRepo, replayN, runPc, subs, repos, pubCall, pubChans, pubIdx,
          pubTodo, pubPc, regPc, closePc, panicked, calls, late, lastReg,
          pubSubs>>

handlerVars == <<hpc, subChannel, subLastId, got>>
replayVars == <<replayPc, replayRest, replayRepo, replayN>>
pubVars == <<pubCall, pubChans, pubIdx, pubTodo>>
runVars == <<runPc, subs, repos, pubVars>>

\* ------------------------------------------------------------ NewServer
Init ==
    /\ hpc = [s \in Subs |-> "idle"]
    /\ subChannel = [s \in Subs |-> "news"]
    /\ subLastId = [s \in Subs |-> ""]
    /\ got = [s \in Subs |-> <<>>]
    /\ closeCount = [s \in Subs |-> 0]
    /\ replayPc = [s \in Subs |-> "none"]
    /\ replayRest = [s \in Subs |-> <<>>]
    /\ replayRepo = [s \in Subs |-> "A"]
    /\ replayN = [s \in Subs |-> 0]
    /\ runPc = "select"
    /\ subs = << >>
    /\ repos = << >>
    /\ pubCall = 0
    /\ pubChans = <<>>
    /\ pubIdx = 0
    /\ pubTodo = {}
    /\ pubPc = [p \in Pubs |-> "idle"]
    /\ regPc = [r \in Regs |-> "idle"]
    /\ closePc = "idle"
    /\ panicked = "none"
    /\ calls = 0
    /\ late = {}
    /\ lastReg = << >>
    /\ pubSubs = << >>

Alive == panicked = "none"

\* One more request or call is made, if the bound allows it.
NewCall ==
    /\ calls < MaxCalls
    /\ calls' = calls + 1


\* A lookup that yields every subscription in the table when k is absent.
SubsOfAbsentIsEveryone(table, c) ==
    IF c \in DOMAIN table THEN table[c]
    ELSE UNION {table[x] : x \in DOMAIN table}

\* m[k] of a Go map of sets: the nil (empty) set when k is absent.
SubsOf(table, c) == IF c \in DOMAIN table THEN table[c] ELSE {}

\* m[k] = v of a Go map: the key is created when absent.
MapPut(m, k, v) == [x \in DOMAIN m \cup {k} |-> IF x = k THEN v ELSE m[x]]

\* ------------------------------------------- the cases of Server.run
\* A registrations case that keeps the repository a channel already has.
RegisterRepoKeepingFirst(table, channel, repo) ==
    IF channel \in DOMAIN table THEN table ELSE MapPut(table, channel, repo)

\* case reg := <-srv.registrations
RegisterRepo(table, channel, repo) == MapPut(table, channel, repo)

\* An unregister case that leaves the subscription in its set.
UnregisterKeeping(table, channel, s) == table

\* An unregister case that makes the inner map when it is absent.
UnregisterMakingSet(table, channel, s) ==
    MapPut(table, channel, SubsOf(table, channel) \ {s})

\* case sub := <-srv.unregister: delete on an absent (nil) inner map does nothing.
Unregister(table, channel, s) ==
    IF channel \in DOMAIN table
    THEN [table EXCEPT ![channel] = @ \ {s}]
    ELSE table

\* A subs case that puts s in the inner map of every channel of the table.
AddSubToEveryChannel(table, channel, s) ==
    [c \in DOMAIN table \cup {channel} |-> SubsOf(table, c) \cup {s}]

\* case sub := <-srv.subs: the inner map is made when absent, then s is put in it.
AddSub(table, channel, s) ==
    MapPut(table, channel, SubsOf(table, channel) \cup {s})

\* A subs case that does not look at sub.lastEventId.
StartsReplayAnyLastId(lastEventId, channel, repoTable) ==
    channel \in DOMAIN repoTable

\* A subs case that looks for the repository of no channel.
StartsReplayNever(lastEventId, channel, repoTable) == FALSE

\* Whether the subs case starts a replay goroutine.
StartsReplay(lastEventId, channel, repoTable) ==
    /\ lastEventId # ""
    /\ channel \in DOMAIN repoTable

\* A quit case that returns after the first inner map it ranges over.
CloseOneChannel(table, counts) ==
    [s \in Subs |->
        IF DOMAIN table # {} /\ s \in table[CHOOSE c \in DOMAIN table : TRUE]
        THEN counts[s] + 1 ELSE counts[s]]

\* A replay that sends the newest event first.
ReplayNextNewest(rest) == rest[Len(rest)]

\* replay's loop: the event it sends next.
ReplayNext(rest) == Head(rest)

\* A replay that drops the event after the one it sent.
ReplayAfterSkipping(rest) == IF Len(rest) > 1 THEN Tail(Tail(rest)) ELSE <<>>

\* replay's loop: what is left once that event is sent.
ReplayAfter(rest) == Tail(rest)

\* A quit case that closes the channel of every subscription, in the table
\* or not.
CloseEverySubscription(table, counts) == [s \in Subs |-> counts[s] + 1]

\* case <-srv.quit: close(s.out) once for each entry of each inner map.
CloseAll(table, counts) ==
    [s \in Subs |->
        counts[s] + Cardinality({c \in DOMAIN table : s \in table[c]})]

\* The loops of the pub case: at channel number idx of chans, with the set
\* todo of that channel's subscribers still to be sent to, the next place where
\* a send is due.  idx is Len(chans) + 1 when both loops are over.
RECURSIVE PubStop(_, _, _, _)
PubStop(table, chans, idx, todo) ==
    IF todo # {} THEN [idx |-> idx, todo |-> todo]
    ELSE IF idx >= Len(chans) THEN [idx |-> Len(chans) + 1, todo |-> {}]
    ELSE PubStop(table, chans, idx + 1, SubsOf(table, chans[idx + 1]))

\* A pub case that sends to the subscribers of every channel of the table.
PubStartEveryone(table, chans) ==
    PubStop(table, chans, 1, UNION {table[c] : c \in DOMAIN table})

\* The pub case from its start: the first channel's subscribers come first.
PubStart(table, chans) == PubStop(table, chans, 1, SubsOf(table, chans[1]))

\* case reg := <-srv.registrations
RunRegistration(channel, repo) ==
    /\ repos' = RegisterRepo(repos, channel, repo)
    /\ UNCHANGED <<runPc, subs, pubVars, replayVars,
                   closeCount, panicked>>

\* case sub := <-srv.unregister
RunUnregister(s) ==
    /\ subs' = Unregister(subs, subChannel[s], s)
    /\ UNCHANGED <<runPc, repos, pubVars, replayVars,
                   closeCount, panicked>>

\* case pub := <-srv.pub, up to its first send
RunPublish(p, chans) ==
    /\ runPc' = "pub"
    /\ pubCall' = p
    /\ pubChans' = chans
    /\ pubIdx' = PubStart(subs, chans).idx
    /\ pubTodo' = PubStart(subs, chans).todo
    /\ UNCHANGED <<subs, repos, replayVars, closeCount, panicked>>

\* case sub := <-srv.subs
RunSubscribe(s, channel, lastEventId) ==
    /\ subs' = AddSub(subs, channel, s)
    /\ IF StartsReplay(lastEventId, channel, repos)
       THEN LET repo == repos[channel]
                evs == Replay(repo, channel, lastEventId)
            IN  /\ replayN' = [replayN EXCEPT ![s] = @ + 1]
                /\ replayRepo' = [replayRepo EXCEPT ![s] = repo]
                /\ replayRest' = [replayRest EXCEPT ![s] = evs]
                /\ replayPc' = [replayPc EXCEPT
                                  ![s] = IF evs = <<>> THEN "done" ELSE "run"]
       ELSE UNCHANGED replayVars
    /\ UNCHANGED <<runPc, repos, pubVars, closeCount,
                   panicked>>

\* case <-srv.quit
RunQuit ==
    /\ runPc' = "done"
    /\ closeCount' = CloseAll(subs, closeCount)
    /\ panicked' = IF \E s \in Subs : closeCount'[s] > 1
                   THEN "close of closed channel" ELSE "none"
    /\ UNCHANGED <<subs, repos, pubVars, replayVars>>

\* A dispatcher that also receives from its channels inside the pub case.
SelectingWhileSending == Alive /\ runPc # "done"

\* The dispatcher is in its select, ready to receive from any of its channels.
Selecting == Alive /\ runPc = "select"

\* The dispatcher is not receiving: a sender on one of its channels blocks.
Busy == Alive /\ runPc # "select"

\* A sender that blocks notes whether run had already returned by then.
NoteLate(call) == late' = IF runPc = "done" THEN late \cup {call} ELSE late

\* ------------------------------------------------------ Server.Handler
\* The handler creates sub; srv.subs <- sub is received at once.
Subscribe(s, channel, lastEventId) ==
    /\ Selecting
    /\ hpc[s] = "idle"
    /\ \A x \in Subs : x < s => hpc[x] # "idle"
    /\ NewCall
    /\ hpc' = [hpc EXCEPT ![s] = "loop"]
    /\ subChannel' = [subChannel EXCEPT ![s] = channel]
    /\ subLastId' = [subLastId EXCEPT ![s] = lastEventId]
    /\ RunSubscribe(s, channel, lastEventId)
    /\ UNCHANGED <<got, pubPc, regPc, closePc, late>>
    /\ UNCHANGED lastReg
    /\ UNCHANGED pubSubs

\* The handler is called and srv.subs <- sub blocks.  What sub holds shows
\* only when the dispatcher receives it, and is settled then.
HandlerStart(s) ==
    /\ Busy
    /\ hpc[s] = "idle"
    /\ \A x \in Subs : x < s => hpc[x] # "idle"
    /\ NewCall
    /\ hpc' = [hpc EXCEPT ![s] = "subscribe"]
    /\ NoteLate(<<"sub", s>>)
    /\ UNCHANGED <<subChannel, subLastId, got, closeCount, replayVars,
                   runVars, pubPc, regPc, closePc, panicked>>
    /\ UNCHANGED lastReg
    /\ UNCHANGED pubSubs

\* The blocked srv.subs <- sub is received.
AcceptSubscribe(s, channel, lastEventId) ==
    /\ Selecting
    /\ hpc[s] = "subscribe"
    /\ hpc' = [hpc EXCEPT ![s] = "loop"]
    /\ subChannel' = [subChannel EXCEPT ![s] = channel]
    /\ subLastId' = [subLastId EXCEPT ![s] = lastEventId]
    /\ RunSubscribe(s, channel, lastEventId)
    /\ UNCHANGED <<got, pubPc, regPc, closePc, calls, late>>
    /\ UNCHANGED lastReg
    /\ UNCHANGED pubSubs

\* The handler's receive of ev from sub.out, then Encode: when that fails
\* the handler goes on to srv.unregister <- sub.
HandlerRecv(s, ev, ok) ==
    /\ got' = [got EXCEPT ![s] = Append(@, ev)]
    /\ hpc' = [hpc EXCEPT ![s] = IF ok THEN "loop" ELSE "unregister"]
    /\ UNCHANGED <<subChannel, subLastId>>

\* case <-notifier.CloseNotify(): srv.unregister <- sub is received at once.
Unsubscribe(s) ==
    /\ Selecting
    /\ hpc[s] = "loop"
    /\ hpc' = [hpc EXCEPT ![s] = "done"]
    /\ RunUnregister(s)
    /\ UNCHANGED <<subChannel, subLastId, got, pubPc, regPc, closePc,
                   calls, late>>
    /\ UNCHANGED lastReg
    /\ UNCHANGED pubSubs

\* case <-notifier.CloseNotify(): srv.unregister <- sub blocks.
HandlerDisconnect(s) ==
    /\ Busy
    /\ hpc[s] = "loop"
    /\ hpc' = [hpc EXCEPT ![s] = "unregister"]
    /\ NoteLate(<<"unsub", s>>)
    /\ UNCHANGED <<subChannel, subLastId, got, closeCount, replayVars,
                   runVars, pubPc, regPc, closePc, panicked, calls>>
    /\ UNCHANGED lastReg
    /\ UNCHANGED pubSubs

\* The blocked srv.unregister <- sub is received.
AcceptUnregister(s) ==
    /\ Selecting
    /\ hpc[s] = "unregister"
    /\ hpc' = [hpc EXCEPT ![s] = "done"]
    /\ RunUnregister(s)
    /\ UNCHANGED <<subChannel, subLastId, got, pubPc, regPc, closePc,
                   calls, late>>
    /\ UNCHANGED lastReg
    /\ UNCHANGED pubSubs

\* case ev, ok := <-sub.out with ok false: the channel is closed.
HandlerClosed(s) ==
    /\ Alive
    /\ hpc[s] = "loop"
    /\ closeCount[s] > 0
    /\ hpc' = [hpc EXCEPT ![s] = "done"]
    /\ UNCHANGED <<subChannel, subLastId, got, closeCount, replayVars,
                   runVars, pubPc, regPc, closePc, panicked, calls, late>>
    /\ UNCHANGED lastReg
    /\ UNCHANGED pubSubs

\* ------------------------------------------------------ Server.Publish
\* srv.pub <- ... is received at once.
Publish(p, chans) ==
    /\ Selecting
    /\ pubPc[p] = "idle"
    /\ \A x \in Pubs : x < p => pubPc[x] # "idle"
    /\ NewCall
    /\ pubPc' = [pubPc EXCEPT ![p] = "ret"]
    /\ RunPublish(p, chans)
    /\ UNCHANGED <<handlerVars, regPc, closePc, late>>
    /\ UNCHANGED lastReg
    /\ pubSubs' = subs

\* Publish is called and srv.pub <- ... blocks.  What the message holds
\* shows only when the dispatcher receives it, and is settled then.
PublishCall(p) ==
    /\ Busy
    /\ pubPc[p] = "idle"
    /\ \A x \in Pubs : x < p => pubPc[x] # "idle"
    /\ NewCall
    /\ pubPc' = [pubPc EXCEPT ![p] = "send"]
    /\ NoteLate(<<"pub", p>>)
    /\ UNCHANGED <<handlerVars, closeCount, replayVars, runVars, regPc,
                   closePc, panicked>>
    /\ UNCHANGED lastReg
    /\ UNCHANGED pubSubs

\* The blocked srv.pub <- ... is received.
AcceptPublish(p, chans) ==
    /\ Selecting
    /\ pubPc[p] = "send"
    /\ pubPc' = [pubPc EXCEPT ![p] = "ret"]
    /\ RunPublish(p, chans)
    /\ UNCHANGED <<handlerVars, regPc, closePc, calls, late>>
    /\ UNCHANGED lastReg
    /\ pubSubs' = subs

\* s.out <- pub.event in the pub case, received by the handler of s.
PubSend(s) ==
    /\ Alive
    /\ runPc = "pub"
    /\ s \in pubTodo
    /\ hpc[s] = "loop"
    /\ \E ok \in BOOLEAN : HandlerRecv(s, PubEvent(pubCall), ok)
    /\ pubIdx' = PubStop(subs, pubChans, pubIdx, pubTodo \ {s}).idx
    /\ pubTodo' = PubStop(subs, pubChans, pubIdx, pubTodo \ {s}).todo
    /\ UNCHANGED <<runPc, pubCall, pubChans, subs, repos, closeCount,
                   replayVars, pubPc, regPc, closePc, panicked, calls, late>>
    /\ UNCHANGED lastReg
    /\ UNCHANGED pubSubs

\* Both loops of the pub case are over: the dispatcher is back at its select.
PubReturn ==
    /\ Alive
    /\ runPc = "pub"
    /\ pubIdx > Len(pubChans)
    /\ runPc' = "select"
    /\ pubCall' = 0
    /\ pubChans' = <<>>
    /\ pubIdx' = 0
    /\ pubTodo' = {}
    /\ UNCHANGED <<handlerVars, subs, repos, closeCount, replayVars, pubPc,
                   regPc, closePc, panicked, calls, late>>
    /\ UNCHANGED lastReg
    /\ pubSubs' = << >>

\* ----------------------------------------------------- Server.Register
\* srv.registrations <- ... is received at once.
Register(r, channel, repo) ==
    /\ Selecting
    /\ regPc[r] = "idle"
    /\ \A x \in Regs : x < r => regPc[x] # "idle"
    /\ NewCall
    /\ regPc' = [regPc EXCEPT ![r] = "ret"]
    /\ RunRegistration(channel, repo)
    /\ UNCHANGED <<handlerVars, pubPc, closePc, late>>
    /\ lastReg' = MapPut(lastReg, channel, repo)
    /\ UNCHANGED pubSubs

\* Register is called and srv.registrations <- ... blocks.
RegisterCall(r) ==
    /\ Busy
    /\ regPc[r] = "idle"
    /\ \A x \in Regs : x < r => regPc[x] # "idle"
    /\ NewCall
    /\ regPc' = [regPc EXCEPT ![r] = "send"]
    /\ NoteLate(<<"reg", r>>)
    /\ UNCHANGED <<handlerVars, closeCount, replayVars, runVars, pubPc,
                   closePc, panicked>>
    /\ UNCHANGED lastReg
    /\ UNCHANGED pubSubs

\* The blocked srv.registrations <- ... is received.
AcceptRegistration(r, channel, repo) ==
    /\ Selecting
    /\ regPc[r] = "send"
    /\ regPc' = [regPc EXCEPT ![r] = "ret"]
    /\ RunRegistration(channel, repo)
    /\ UNCHANGED <<handlerVars, pubPc, closePc, calls, late>>
    /\ lastReg' = MapPut(lastReg, channel, repo)
    /\ UNCHANGED pubSubs

\* -------------------------------------------------------- Server.Close
\* srv.quit <- true is received at once.
Close ==
    /\ Selecting
    /\ closePc = "idle"
    /\ closePc' = "ret"
    /\ RunQuit
    /\ UNCHANGED <<handlerVars, pubPc, regPc, calls, late>>
    /\ UNCHANGED lastReg
    /\ UNCHANGED pubSubs

\* Close is called and srv.quit <- true blocks.
CloseCall ==
    /\ Busy
    /\ closePc = "idle"
    /\ closePc' = "send"
    /\ UNCHANGED <<handlerVars, closeCount, replayVars, runVars, pubPc,
                   regPc, panicked, calls, late>>
    /\ UNCHANGED lastReg
    /\ UNCHANGED pubSubs

\* The blocked srv.quit <- true is received.
AcceptQuit ==
    /\ Selecting
    /\ closePc = "send"
    /\ closePc' = "ret"
    /\ RunQuit
    /\ UNCHANGED <<handlerVars, pubPc, regPc, calls, late>>
    /\ UNCHANGED lastReg
    /\ UNCHANGED pubSubs

\* ------------------------------------------------------------- replay
\* sub.out <- ev, received by the handler of s.
ReplaySend(s) ==
    /\ Alive
    /\ replayPc[s] = "run"
    /\ closeCount[s] = 0
    /\ hpc[s] = "loop"
    /\ \E ok \in BOOLEAN : HandlerRecv(s, ReplayNext(replayRest[s]), ok)
    /\ replayRest' = [replayRest EXCEPT ![s] = ReplayAfter(@)]
    /\ replayPc' = [replayPc EXCEPT
                      ![s] = IF ReplayAfter(replayRest[s]) = <<>>
                             THEN "done" ELSE "run"]
    /\ UNCHANGED <<closeCount, replayRepo, replayN, runVars, pubPc, regPc,
                   closePc, panicked, calls, late>>
    /\ UNCHANGED lastReg
    /\ UNCHANGED pubSubs

\* sub.out <- ev on a closed channel: the Go runtime panics.
ReplayPanic(s) ==
    /\ Alive
    /\ replayPc[s] = "run"
    /\ closeCount[s] > 0
    /\ panicked' = "send on closed channel"
    /\ UNCHANGED <<handlerVars, closeCount, replayVars, runVars, pubPc,
                   regPc, closePc, calls, late>>
    /\ UNCHANGED lastReg
    /\ UNCHANGED pubSubs

Next ==
    \/ \E s \in Subs, c \in Channels, l \in LastIds : Subscribe(s, c, l)
    \/ \E s \in Subs : HandlerStart(s)
    \/ \E s \in Subs, c \in Channels, l \in LastIds : AcceptSubscribe(s, c, l)
    \/ \E s \in Subs : Unsubscribe(s)
    \/ \E s \in Subs : HandlerDisconnect(s)
    \/ \E s \in Subs : AcceptUnregister(s)
    \/ \E s \in Subs : HandlerClosed(s)
    \/ \E p \in Pubs, chans \in ChanLists : Publish(p, chans)
    \/ \E p \in Pubs : PublishCall(p)
    \/ \E p \in Pubs, chans \in ChanLists : AcceptPublish(p, chans)
    \/ \E s \in Subs : PubSend(s)
    \/ PubReturn
    \/ \E r \in Regs, c \in Channels, repo \in Repos : Register(r, c, repo)
    \/ \E r \in Regs : RegisterCall(r)
    \/ \E r \in Regs, c \in Channels, repo \in Repos :
          AcceptRegistration(r, c, repo)
    \/ Close
    \/ CloseCall
    \/ AcceptQuit
    \/ \E s \in Subs : ReplaySend(s)
    \/ \E s \in Subs : ReplayPanic(s)

Spec == Init /\ [][Next]_vars

\* The goroutines run whenever they can: a send is received when its
\* receiver is ready, and a select with a ready case takes one.  Nothing
\* obliges a client to call, a peer to disconnect or Encode to fail.
Fairness ==
    /\ WF_vars(\E s \in Subs, c \in Channels, l \in LastIds :
                   AcceptSubscribe(s, c, l))
    /\ WF_vars(\E s \in Subs : AcceptUnregister(s))
    /\ WF_vars(\E p \in Pubs, chans \in ChanLists : AcceptPublish(p, chans))
    /\ WF_vars(\E r \in Regs, c \in Channels, repo \in Repos :
                   AcceptRegistration(r, c, repo))
    /\ WF_vars(AcceptQuit)
    /\ WF_vars(PubReturn)
    /\ \A s \in Subs :
          /\ WF_vars(PubSend(s))
          /\ WF_vars(ReplaySend(s))
          /\ WF_vars(ReplayPanic(s))
          /\ WF_vars(HandlerClosed(s))

FairSpec == Spec /\ Fairness

\* The dispatcher's and the goroutines' own steps, whatever the clients do.
ServerStep ==
    \/ \E s \in Subs : Unsubscribe(s)
    \/ \E s \in Subs : HandlerDisconnect(s)
    \/ \E s \in Subs : AcceptUnregister(s)
    \/ \E s \in Subs : HandlerClosed(s)
    \/ \E s \in Subs : PubSend(s)
    \/ PubReturn
    \/ Close
    \/ CloseCall
    \/ AcceptQuit
    \/ \E s \in Subs : ReplaySend(s)
    \/ \E s \in Subs : ReplayPanic(s)

\* Of the fairness above, only that the dispatcher goes back to its select
\* when the loops of the pub case are over.
PubSpec == Spec /\ WF_vars(PubReturn)

\* Reconnecting clients: every request is for "news" with Last-Event-ID 5;
\* Publish and Register are called with any arguments.
ReconnectNext ==
    \/ \E s \in Subs : Subscribe(s, "news", "5")
    \/ \E s \in Subs : HandlerStart(s)
    \/ \E s \in Subs : AcceptSubscribe(s, "news", "5")
    \/ \E p \in Pubs, chans \in ChanLists : Publish(p, chans)
    \/ \E p \in Pubs : PublishCall(p)
    \/ \E p \in Pubs, chans \in ChanLists : AcceptPublish(p, chans)
    \/ \E r \in Regs, c \in Channels, repo \in Repos : Register(r, c, repo)
    \/ \E r \in Regs : RegisterCall(r)
    \/ \E r \in Regs, c \in Channels, repo \in Repos :
          AcceptRegistration(r, c, repo)
    \/ ServerStep

\* Of the fairness above, only that a replay's send is received when the
\* handler is ready for it.
ReplaySpec ==
    Init /\ [][ReconnectNext]_vars /\ \A s \in Subs : WF_vars(ReplaySend(s))

\* The scenario of the news replay: repository A is registered for "news"
\* beforehand; the first request is for "news" with Last-Event-ID 5 and every
\* other one is for "sports"; the first Publish is of event 9 to "news" and
\* every other one is to "sports" alone; Register is called for "sports".
SportsLists == {chans \in ChanLists : Range(chans) = {"sports"}}

ScenarioInit ==
    /\ hpc = [s \in Subs |-> "idle"]
    /\ subChannel = [s \in Subs |-> "news"]
    /\ subLastId = [s \in Subs |-> ""]
    /\ got = [s \in Subs |-> <<>>]
    /\ closeCount = [s \in Subs |-> 0]
    /\ replayPc = [s \in Subs |-> "none"]
    /\ replayRest = [s \in Subs |-> <<>>]
    /\ replayRepo = [s \in Subs |-> "A"]
    /\ replayN = [s \in Subs |-> 0]
    /\ runPc = "select"
    /\ subs = << >>
    /\ repos = RegisterRepo(<< >>, "news", "A")
    /\ pubCall = 0
    /\ pubChans = <<>>
    /\ pubIdx = 0
    /\ pubTodo = {}
    /\ pubPc = [p \in Pubs |-> "idle"]
    /\ regPc = [r \in Regs |-> "idle"]
    /\ closePc = "idle"
    /\ panicked = "none"
    /\ calls = 0
    /\ late = {}
    /\ lastReg = MapPut(<< >>, "news", "A")
    /\ pubSubs = << >>

ScenarioNext ==
    \/ Subscribe(1, "news", "5")
    \/ \E s \in Subs \ {1}, l \in LastIds : Subscribe(s, "sports", l)
    \/ \E s \in Subs : HandlerStart(s)
    \/ AcceptSubscribe(1, "news", "5")
    \/ \E s \in Subs \ {1}, l \in LastIds : AcceptSubscribe(s, "sports", l)
    \/ Publish(1, <<"news">>)
    \/ \E p \in Pubs \ {1}, chans \in SportsLists : Publish(p, chans)
    \/ \E p \in Pubs : PublishCall(p)
    \/ AcceptPublish(1, <<"news">>)
    \/ \E p \in Pubs \ {1}, chans \in SportsLists : AcceptPublish(p, chans)
    \/ \E r \in Regs, repo \in Repos : Register(r, "sports", repo)
    \/ \E r \in Regs : RegisterCall(r)
    \/ \E r \in Regs, repo \in Repos : AcceptRegistration(r, "sports", repo)
    \/ ServerStep

ScenarioSpec == ScenarioInit /\ [][ScenarioNext]_vars /\ Fairness

\* ================================================================ claims
\* How many times the event e stands in the sequence q.
Count(e, q) == Cardinality({i \in 1..Len(q) : q[i] = e})

\* In the pub case: the sends to s that are due by now, one for each place of
\* pub.channels already dealt with whose subscriber set holds s.
SendsDue(s) ==
    {i \in 1..Len(pubChans) :
        /\ s \in SubsOf(subs, pubChans[i])
        /\ i < pubIdx \/ (i = pubIdx /\ s \notin pubTodo)}

\* C1: while the dispatcher is in the pub case for an accepted Publish, each
\* subscription has received the event exactly once for every listed channel
\* already dealt with whose subscriber set holds it (so when the loops are
\* over, every subscriber of every listed channel has it), and a
\* subscription whose own channel is not in the list has not received it.
C1_PublishRouting ==
    runPc = "pub" =>
        \A s \in Subs :
            /\ Count(PubEvent(pubCall), got[s]) = Cardinality(SendsDue(s))
            /\ subChannel[s] \notin Range(pubChans) =>
                   Count(PubEvent(pubCall), got[s]) = 0

\* A Publish to one channel is over: a subscriber of that channel has the
\* event and a subscriber of the other channel, still listening, has not.
C1_Witness ==
    /\ runPc = "pub"
    /\ pubIdx > Len(pubChans)
    /\ \E s1, s2 \in Subs :
          /\ PubEvent(pubCall) \in Range(got[s1])
          /\ hpc[s2] = "loop"
          /\ subChannel[s2] \notin Range(pubChans)
          /\ s2 \in SubsOf(subs, subChannel[s2])
          /\ PubEvent(pubCall) \notin Range(got[s2])


\* C2: no replay goroutine and no pub case ever sends on a subscription's
\* channel after that channel was closed.
C2_NoSendOnClosed == panicked # "send on closed channel"

\* C3: no channel is closed twice, and once the dispatcher has dealt with
\* Close the channel of every subscription in its table has been closed once.
C3_ShutdownClosesOnce ==
    /\ panicked # "close of closed channel"
    /\ \A s \in Subs : closeCount[s] <= 1
    /\ runPc = "done" =>
          \A c \in DOMAIN subs : \A s \in subs[c] : closeCount[s] = 1

\* Close has been dealt with while subscriptions of two channels were in the
\* table: both are closed.
C3_Witness ==
    /\ runPc = "done"
    /\ \E s1, s2 \in Subs :
          /\ subChannel[s1] # subChannel[s2]
          /\ s1 \in SubsOf(subs, subChannel[s1])
          /\ s2 \in SubsOf(subs, subChannel[s2])
          /\ closeCount[s1] = 1
          /\ closeCount[s2] = 1

\* C4: when a handler has stopped reading its channel and is handing in its
\* Unsubscribe while the pub case still has a send to that subscription due,
\* the dispatcher still comes to accept the Unsubscribe.
C4_UnsubscribeAccepted ==
    \A s \in Subs :
        (hpc[s] = "unregister" /\ runPc = "pub" /\ s \in pubTodo)
            ~> (hpc[s] = "done")

\* C5: a Publish, a handler's Subscribe or Unsubscribe, or a Register that
\* begins after the dispatcher has dealt with Close returns to its caller.
C5_LateCallsReturn ==
    /\ \A p \in Pubs : (<<"pub", p>> \in late) ~> (pubPc[p] = "ret")
    /\ \A r \in Regs : (<<"reg", r>> \in late) ~> (regPc[r] = "ret")
    /\ \A s \in Subs : (<<"sub", s>> \in late) ~> (hpc[s] # "subscribe")
    /\ \A s \in Subs : (<<"unsub", s>> \in late) ~> (hpc[s] = "done")

\* C6: on every table the dispatcher can hold, for every subscription and
\* channel, the unregister case done a second time changes nothing, and done
\* for a subscription that is not in the channel's set (or whose channel has
\* no set) changes nothing.
C6_UnsubscribeIdempotent ==
    \A s \in Subs : \A c \in Channels :
        LET once == Unregister(subs, c, s)
        IN  /\ Unregister(once, c, s) = once
            /\ s \notin SubsOf(subs, c) => once = subs

\* A subscription has been unsubscribed, its channel's set is still in the
\* table, and the other channel has no set at all.
C6_Witness ==
    \E s \in Subs :
        /\ hpc[s] = "done"
        /\ closeCount[s] = 0
        /\ subChannel[s] \in DOMAIN subs
        /\ s \notin subs[subChannel[s]]
        /\ \E c \in Channels : c \notin DOMAIN subs


\* The replayed events among what s has received, in the order received.
Replayed(s) ==
    LET old(e) == e \notin LiveEvents
    IN  SelectSeq(got[s], old)

\* C7: the events a subscription has received from its replay, in the order
\* received and followed by those the replay has still to send, are the
\* sequence its history source yields after its last-seen id (so e1, e2, e3
\* arrive in that order whatever live events come between); and a replay in
\* progress comes to its end unless the handler leaves its loop or the
\* dispatcher shuts down.
C7_ReplayInOrder ==
    /\ [](\A s \in Subs :
            replayN[s] > 0 =>
                Replayed(s) \o replayRest[s]
                    = Replay(replayRepo[s], subChannel[s], subLastId[s]))
    /\ \A s \in Subs :
          (replayPc[s] = "run")
              ~> (replayPc[s] = "done" \/ hpc[s] # "loop" \/ runPc = "done")

\* A subscriber has received 6, 7 and 8 from its replay with a live event
\* in between.
C7_Witness ==
    \E s \in Subs :
        /\ replayPc[s] = "done"
        /\ Replayed(s) = <<6, 7, 8>>
        /\ \E i \in 1..Len(got[s]) : got[s][i] \in LiveEvents /\ i < Len(got[s])

\* C9: a subscription with an empty last-seen id has no replay goroutine and
\* has received live events only.
C9_NoReplayWithoutLastId ==
    \A s \in Subs :
        subLastId[s] = "" =>
            /\ replayN[s] = 0
            /\ replayPc[s] = "none"
            /\ Range(got[s]) \subseteq LiveEvents

\* A subscription with an empty last-seen id, on a channel that has a
\* repository, has received a live event.
C9_Witness ==
    \E s \in Subs :
        /\ hpc[s] = "loop"
        /\ subLastId[s] = ""
        /\ subChannel[s] \in DOMAIN repos
        /\ got[s] # <<>>

\* C10: the step in which the dispatcher receives a subscription puts it in
\* its channel's set, keeps every other member of every set, and starts one
\* replay goroutine when the last-seen id is not empty and the channel has a
\* repository at that moment, none otherwise; no subscription ever has more
\* than one replay goroutine.
C10_SubscribeStartsOneReplay ==
    /\ [][\A s \in Subs :
            (hpc[s] \in {"idle", "subscribe"} /\ hpc'[s] = "loop") =>
                /\ s \in SubsOf(subs', subChannel'[s])
                /\ \A c \in DOMAIN subs : subs[c] \subseteq SubsOf(subs', c)
                /\ replayN'[s] =
                      IF subLastId'[s] # "" /\ subChannel'[s] \in DOMAIN repos
                      THEN 1 ELSE 0]_vars
    /\ [](\A s \in Subs : replayN[s] <= 1)

\* One subscription has a replay goroutine; another with a last-seen id, on
\* a channel without a repository, has none and is in its channel's set.
C10_Witness ==
    \E s1, s2 \in Subs :
        /\ replayN[s1] = 1
        /\ hpc[s2] = "loop"
        /\ subLastId[s2] # ""
        /\ subChannel[s2] \notin DOMAIN repos
        /\ replayN[s2] = 0
        /\ s2 \in SubsOf(subs, subChannel[s2])


\* C8: in the scenario, the first subscriber only ever holds events 6, 7, 8
\* and 9, each at most once (so nothing published to "sports"); and once
\* event 9 has been accepted for it while its replay is in progress, it comes
\* to hold exactly those four, unless its handler leaves its loop or the
\* dispatcher shuts down.
C8_ReplayMergesWithLive ==
    /\ [](/\ Range(got[1]) \subseteq {6, 7, 8, 9}
          /\ \A e \in Range(got[1]) : Count(e, got[1]) = 1)
    /\ (runPc = "pub" /\ pubCall = 1 /\ 1 \in pubTodo /\ replayPc[1] = "run")
          ~> \/ Len(got[1]) = 4 /\ Range(got[1]) = {6, 7, 8, 9}
             \/ hpc[1] # "loop"
             \/ runPc = "done"

\* The first subscriber holds 6, 7, 8 and 9, with 9 not the last to arrive,
\* and a Publish to "sports" has been dealt with.
C8_Witness ==
    /\ Len(got[1]) = 4
    /\ Range(got[1]) = {6, 7, 8, 9}
    /\ got[1][4] # 9
    /\ pubPc[2] = "ret"
    /\ runPc = "select"

\* C11: one Publish call delivers its event to any one subscription at most
\* once, whatever channel list it is called with.
C11_PublishAtMostOnce ==
    \A s \in Subs : \A p \in Pubs : Count(PubEvent(p), got[s]) <= 1

\* C12: the repository table holds, for each channel, the repository of the
\* Register call received last for it and nothing else; the step in which a
\* subscription is received and a replay starts gives the replay that
\* repository and its events after the last-seen id; and from then on no
\* step, a later Register for the channel included, changes the replay's
\* repository or its events other than by the replay sending its next one.
C12_LastRegisterWins ==
    /\ [](repos = lastReg)
    /\ [][\A s \in Subs :
            /\ replayN'[s] > replayN[s] =>
                  /\ replayRepo'[s] = lastReg[subChannel'[s]]
                  /\ replayRest'[s] =
                        Replay(lastReg[subChannel'[s]], subChannel'[s], subLastId'[s])
            /\ replayN[s] > 0 =>
                  /\ replayRepo'[s] = replayRepo[s]
                  /\ \/ replayRest'[s] = replayRest[s]
                     \/ /\ replayRest[s] # <<>>
                        /\ replayRest'[s] = Tail(replayRest[s])]_vars

\* While a replay from repository A is in progress and has sent an event,
\* repository B has been registered for its channel.
C12_Witness ==
    \E s \in Subs :
        /\ replayPc[s] = "run"
        /\ Replayed(s) # <<>>
        /\ replayRepo[s] = "A"
        /\ subChannel[s] \in DOMAIN repos
        /\ repos[subChannel[s]] = "B"

\* Every channel of the list has no subscriber and no repository.
Unpopulated(chans) ==
    \A i \in 1..Len(chans) :
        /\ chans[i] \in DOMAIN subs => subs[chans[i]] = {}
        /\ chans[i] \notin DOMAIN repos

\* C13: the step in which the dispatcher receives a Publish whose channels
\* have no subscriber and no repository changes neither table (no channel is
\* created), delivers nothing, closes nothing, panics nowhere, lets the call
\* return and leaves no send due; while that pub case lasts nobody has its
\* event; leaving it changes no table; and the dispatcher gets back to its
\* select.
C13_PublishToEmptyChannel ==
    /\ [][\A p \in Pubs :
            (pubCall' = p /\ pubCall # p /\ Unpopulated(pubChans')) =>
                /\ subs' = subs
                /\ repos' = repos
                /\ got' = got
                /\ closeCount' = closeCount
                /\ panicked' = "none"
                /\ pubPc'[p] = "ret"
                /\ pubTodo' = {}
                /\ pubIdx' > Len(pubChans')]_vars
    /\ [](runPc = "pub" /\ Unpopulated(pubChans) =>
            /\ pubTodo = {}
            /\ \A s \in Subs : Count(PubEvent(pubCall), got[s]) = 0)
    /\ [][runPc = "pub" /\ runPc' = "select" =>
            subs' = subs /\ repos' = repos /\ got' = got]_vars
    /\ (runPc = "pub" /\ Unpopulated(pubChans)) ~> (runPc = "select")

\* The dispatcher has received a Publish to channels without subscribers or
\* repository and is through its loops, while another channel has a listening
\* subscriber and a repository.
C13_Witness ==
    /\ runPc = "pub"
    /\ Unpopulated(pubChans)
    /\ pubIdx > Len(pubChans)
    /\ pubPc[pubCall] = "ret"
    /\ DOMAIN repos # {}
    /\ \E s \in Subs :
          /\ hpc[s] = "loop"
          /\ s \in SubsOf(subs, subChannel[s])

\* Those the pub case has to send to: the members, when its message was
\* received, of the subscriber sets of the channels it lists.
Recipients == UNION {SubsOf(pubSubs, pubChans[i]) : i \in 1..Len(pubChans)}

\* C14: the tables change only in a step of the dispatcher taken from its
\* select, and such a step is one operation: it changes one table, for one
\* subscription or one channel.  While the dispatcher is in the pub case,
\* sending or blocked in a send, the tables stay as they stood when the
\* message was received and no Subscribe, Unsubscribe or Register is
\* received; the subscriptions the pub case sends to are among the
\* recipients, and when its loops are over those that hold the event are
\* exactly the recipients.
C14_OperationsAtomic ==
    /\ [][(subs' # subs \/ repos' # repos) =>
            /\ runPc = "select"
            /\ subs' = subs \/ repos' = repos
            /\ Cardinality({s \in Subs : hpc'[s] # hpc[s]}
                           \cup {r \in Regs : regPc'[r] # regPc[r]}) = 1]_vars
    /\ [][runPc = "pub" =>
            /\ subs' = subs
            /\ repos' = repos
            /\ \A s \in Subs :
                  hpc'[s] # hpc[s] =>
                      /\ hpc[s] \in {"idle", "loop"}
                      /\ hpc'[s] \in {"subscribe", "unregister", "loop"}
            /\ \A r \in Regs : regPc'[r] # "ret" \/ regPc[r] = "ret"]_vars
    /\ [](runPc = "pub" =>
            /\ pubSubs = subs
            /\ pubTodo \subseteq Recipients
            /\ pubIdx > Len(pubChans) =>
                  {s \in Subs : PubEvent(pubCall) \in Range(got[s])} = Recipients)

\* The pub case has recipients and is through its loops while a Subscribe
\* and an Unsubscribe wait to be received.
C14_Witness ==
    /\ runPc = "pub"
    /\ pubIdx > Len(pubChans)
    /\ Recipients # {}
    /\ \E s \in Subs : hpc[s] = "subscribe"
    /\ \E s \in Subs : hpc[s] = "unregister"

\* The channels under which s stands in the table.
ChannelsOf(s) == {c \in DOMAIN subs : s \in subs[c]}

\* C15: a subscription stands in the table under no channel but the one it
\* was created with (a set holds it once at most), and only once the
\* dispatcher has received it; the steps of Publish, of the pub case and of
\* Register leave the subscriber sets as they are.
C15_OneChannelPerSubscription ==
    /\ [](\A s \in Subs :
            /\ ChannelsOf(s) \subseteq {subChannel[s]}
            /\ hpc[s] \in {"idle", "subscribe"} => ChannelsOf(s) = {})
    /\ [][(pubPc' # pubPc \/ regPc' # regPc \/ pubCall' # pubCall
             \/ pubTodo' # pubTodo \/ repos' # repos) => subs' = subs]_vars

\* Subscriptions of two channels are in the table and a Publish naming both
\* channels has been sent to them.
C15_Witness ==
    /\ runPc = "pub"
    /\ pubIdx > Len(pubChans)
    /\ \E s1, s2 \in Subs :
          /\ subChannel[s1] # subChannel[s2]
          /\ ChannelsOf(s1) = {subChannel[s1]}
          /\ ChannelsOf(s2) = {subChannel[s2]}
          /\ PubEvent(pubCall) \in Range(got[s1]) \cap Range(got[s2])

\* C16: no channel of a subscription is closed twice; a close happens only in
\* the step in which the dispatcher receives Close, and only for a
\* subscription that stands in the table at that moment, so never for one
\* that left it through Unsubscribe; and once that step is done the
\* dispatcher changes no table, receives no call and sends no published
\* event.
C16_ClosedOnlyByShutdown ==
    /\ [](\A s \in Subs :
            /\ closeCount[s] <= 1
            /\ closeCount[s] > 0 =>
                  runPc = "done" /\ s \in SubsOf(subs, subChannel[s]))
    /\ [][closeCount' # closeCount =>
            /\ runPc = "select"
            /\ runPc' = "done"
            /\ closePc' = "ret"
            /\ \A s \in Subs :
                  closeCount'[s] # closeCount[s] => ChannelsOf(s) # {}]_vars
    /\ [][runPc = "done" =>
            /\ UNCHANGED <<runVars, closeCount>>
            /\ \A s \in Subs :
                  /\ hpc'[s] # hpc[s] =>
                        hpc'[s] \in {"subscribe", "unregister"}
                           \/ (hpc'[s] = "done" /\ closeCount[s] = 1)
                  /\ got'[s] # got[s] =>
                        got'[s][Len(got'[s])] \notin LiveEvents
            /\ \A p \in Pubs : pubPc'[p] # "ret" \/ pubPc[p] = "ret"
            /\ \A r \in Regs : regPc'[r] # "ret" \/ regPc[r] = "ret"]_vars

\* Close has been dealt with: the channel of the subscription in the table
\* is closed and its handler has returned, and the channel of a subscription
\* that had unsubscribed is not closed.
C16_Witness ==
    /\ runPc = "done"
    /\ \E s1, s2 \in Subs :
          /\ closeCount[s1] = 1
          /\ hpc[s1] = "done"
          /\ hpc[s2] = "done"
          /\ subChannel[s2] \in DOMAIN subs
          /\ s2 \notin subs[subChannel[s2]]
          /\ closeCount[s2] = 0

\* The published events among what s has received, in the order received.
Live(s) ==
    LET new(e) == e \in LiveEvents
    IN  SelectSeq(got[s], new)

\* C17: the dispatcher holds one Publish at a time: it receives one only at
\* its select, with no send of the one before left, and none of whose events
\* has been sent yet; every published event a subscription receives is the
\* event of the Publish the dispatcher holds at that moment.  So the events
\* of a Publish received earlier all come before those of one received
\* later.  A subscription is received at the select too, having nothing yet,
\* so it gets nothing of a Publish received before it; and once its
\* Unsubscribe is received it gets nothing more and no send to it is due.
C17_AcceptanceOrder ==
    /\ [][(pubCall' # pubCall /\ pubCall' # 0) =>
            /\ runPc = "select"
            /\ pubCall = 0
            /\ pubPc[pubCall'] # "ret"
            /\ \A s \in Subs : PubEvent(pubCall') \notin Range(got[s])]_vars
    /\ [][(pubCall # 0 /\ pubCall' # pubCall) =>
            pubTodo = {} /\ pubIdx > Len(pubChans)]_vars
    /\ [][\A s \in Subs :
            Live(s)' # Live(s) =>
                /\ runPc = "pub"
                /\ s \in pubTodo
                /\ Live(s)' = Append(Live(s), PubEvent(pubCall))]_vars
    /\ [](\A s \in Subs : \A i, j, k \in 1..Len(Live(s)) :
            (i < j /\ j < k /\ Live(s)[i] = Live(s)[k]) =>
                Live(s)[j] = Live(s)[i])
    /\ [][\A s \in Subs :
            (hpc[s] \in {"idle", "subscribe"} /\ hpc'[s] = "loop") =>
                runPc = "select" /\ pubCall = 0 /\ got'[s] = <<>>]_vars
    /\ [][\A s \in Subs :
            (hpc[s] = "done" /\ closeCount[s] = 0) =>
                got'[s] = got[s] /\ s \notin pubTodo']_vars

\* A subscriber has received the events of two Publish calls, the earlier
\* one first, and has then unsubscribed; the dispatcher is at its select.
C17_Witness ==
    /\ runPc = "select"
    /\ \E s \in Subs :
          /\ Live(s) = <<PubEvent(1), PubEvent(2)>>
          /\ hpc[s] = "done"
          /\ closeCount[s] = 0
          /\ ChannelsOf(s) = {}

\* C18: every replay goroutine comes to its end, also when the handler of
\* its subscription has returned or the dispatcher has dealt with Close.
C18_ReplayTerminates ==
    \A s \in Subs : (replayPc[s] = "run") ~> (replayPc[s] = "done")

\* C19: a handler whose peer has disconnected returns even when the
\* dispatcher has dealt with Close by then (it is handing in its Unsubscribe
\* and run has returned), and a handler whose channel has been closed returns.
C19_HandlerStops ==
    /\ \A s \in Subs :
          (hpc[s] = "unregister" /\ runPc = "done") ~> (hpc[s] = "done")
    /\ \A s \in Subs :
          (hpc[s] = "loop" /\ closeCount[s] > 0) ~> (hpc[s] = "done")

\* The handler of s has returned and s stands in no set of the table: the
\* dispatcher has dealt with its Unsubscribe.
Unsubscribed(s) == hpc[s] = "done" /\ ChannelsOf(s) = {}

\* C20: the step in which the dispatcher receives the Unsubscribe of s takes
\* s out of the table; from then on, whatever is received (Publish, other
\* subscriptions, Register, Close), s stays out, no send of a published event
\* to s is due, s receives nothing, no new replay is started for it and its
\* channel is not closed.
C20_NothingAfterUnsubscribe ==
    /\ [][\A s \in Subs :
            (hpc[s] \in {"loop", "unregister"} /\ hpc'[s] = "done"
               /\ runPc = "select") => Unsubscribed(s)']_vars
    /\ [][\A s \in Subs :
            Unsubscribed(s) =>
                /\ Unsubscribed(s)'
                /\ s \notin pubTodo'
                /\ got'[s] = got[s]
                /\ replayN'[s] = replayN[s]
                /\ closeCount'[s] = closeCount[s]]_vars
    /\ [](\A s \in Subs : Unsubscribed(s) => closeCount[s] = 0 /\ s \notin pubTodo)

\* The first subscriber unsubscribed; a Publish to its channel then went to
\* the second subscriber of that channel only; Close has been dealt with and
\* has closed the second subscriber's channel alone.
C20_Witness ==
    /\ runPc = "done"
    /\ Unsubscribed(1)
    /\ subChannel[1] = subChannel[2]
    /\ PubEvent(1) \in Range(got[2])
    /\ PubEvent(1) \notin Range(got[1])
    /\ closeCount[2] = 1
    /\ closeCount[1] = 0

====
